---- MODULE Spec2Model ----
(***************************************************************************)
(* Cue backend: identity resolution (multi-frame face recognition), the    *)
(* person lifecycle kept in two stores (Neo4j entity store, Qdrant vector  *)
(* index), memory consolidation into routines, the background routine      *)
(* worker and the retry wrapper of the entity store.                       *)
(*                                                                         *)
(* Scores and confidences are in tenths (0.8 is 8).  Timestamps are values *)
(* of a logical clock; Null (0) is Cypher's null.                          *)
(***************************************************************************)
EXTENDS Integers, Sequences, FiniteSets, TLC

\* ------------------------------------------------------------------ bounds
MaxPersons == 2
MaxFrames == 2
ScoreSpan == 1
MaxClock == 2
MaxMem == 3
MaxCands == 2
MaxTexts == 1

\* ------------------------------------------------------- program constants
FACE_SIMILARITY_THRESHOLD == 8
Null == 0
\* routine confidences, in tenths
NOTE_CONFIDENCE == 6
FALLBACK_CONFIDENCE == 5
DEFAULT_CONFIDENCE == 5
\* familiarity, in hundredths
FAMILIARITY_INCREMENT == 5
FAMILIARITY_CAP == 100
\* memories read by one analysis, query limit and batch of the worker
MAX_RETRIES == 3
MEMORY_WINDOW == 50
QUERY_LIMIT == 10
BATCH_SIZE == 5

NoId == Null
PersonIds == 1..MaxPersons
Scores == (FACE_SIMILARITY_THRESHOLD - 1)..(FACE_SIMILARITY_THRESHOLD + ScoreSpan)

VARIABLES
    person,     \* entity store: Person node of each id (status "absent": no node)
    memories,   \* entity store: number of Memory nodes linked to each person
    routines,   \* entity store: Routine nodes linked by HAS_ROUTINE, in creation order
    orphans,    \* entity store: Routine nodes tagged person_id with no Person node
    faceIdx,    \* vector index, face collection: status payload of the person's points
    memIdx,     \* vector index, memory collection: number of points tagged person_id
    thumbs,     \* face_images/<person_id>.jpg exists
    clock,      \* current time
    nextId,     \* next fresh person id (uuid4 never repeats)
    last,       \* the last request served and its response
    procs,      \* the routine workers and the manual extraction script
    conn        \* the entity-store client and its retry-wrapped call in progress

storeVars == <<person, memories, routines, orphans, faceIdx, memIdx, thumbs>>
vars ==
    <<person, memories, routines, orphans, faceIdx, memIdx, thumbs, clock, nextId, last,
      procs, conn>>

\* ------------------------------------------------------------ entity store
Absent ==
    [status |-> "absent", name |-> "null", relation |-> "null", note |-> FALSE,
     familiarity_score |-> <<>>,
     created_at |-> Null, confirmed_at |-> Null, last_seen_at |-> Null,
     last_memory_saved |-> Null, last_routine_analysis |-> Null]

\* create_person: confirmed_at is written null whatever the status, and
\* familiarity_score is not written (<<>> is the missing property, <<v>> is v)
create_person(status, name, relation, note, now) ==
    [status |-> status, name |-> name, relation |-> relation, note |-> note,
     familiarity_score |-> <<>>,
     created_at |-> now, confirmed_at |-> Null, last_seen_at |-> now,
     last_memory_saved |-> Null, last_routine_analysis |-> Null]

\* get_person: the node, or None
Exists(pid) == pid \in DOMAIN person /\ person[pid].status # "absent"

\* update_person, cut after `upto` of its statements (name, relation, status);
\* each statement is its own auto-commit query and matches nothing when the
\* node is gone
update_person(p, upto, now) ==
    IF p.status = "absent" THEN p
    ELSE LET p1 == IF upto >= 1 THEN [p EXCEPT !.name = "name"] ELSE p
             p2 == IF upto >= 2 THEN [p1 EXCEPT !.relation = "relation"] ELSE p1
         IN IF upto >= 3
            THEN [p2 EXCEPT !.status = "confirmed", !.confirmed_at = now]
            ELSE p2

\* a touch that also stamps the confirmation time
update_last_seen_and_confirmed(p, now) ==
    IF p.status = "absent" THEN p ELSE [p EXCEPT !.last_seen_at = now, !.confirmed_at = now]

\* update_last_seen
update_last_seen(p, now) ==
    IF p.status = "absent" THEN p ELSE [p EXCEPT !.last_seen_at = now]

\* the increment without the CASE that caps it
update_familiarity_uncapped(p, inc) ==
    IF p.status = "absent" \/ p.familiarity_score = <<>> THEN p
    ELSE [p EXCEPT !.familiarity_score = <<p.familiarity_score[1] + inc>>]

\* update_familiarity: in Cypher null + inc is null, and CASE WHEN null takes
\* the ELSE branch
update_familiarity(p, inc) ==
    IF p.status = "absent" \/ p.familiarity_score = <<>> THEN p
    ELSE LET v == p.familiarity_score[1] IN
         [p EXCEPT !.familiarity_score =
             IF v + inc > FAMILIARITY_CAP THEN <<FAMILIARITY_CAP>> ELSE <<v + inc>>]

\* update_person_timestamp
update_person_timestamp(p, field, now) ==
    IF p.status = "absent" THEN p
    ELSE IF field = "last_memory_saved" THEN [p EXCEPT !.last_memory_saved = now]
    ELSE [p EXCEPT !.last_routine_analysis = now]

\* ------------------------------------------------------------ vector index
\* update_person_status: scroll the person's points, set their status payload
update_person_status(idx, pid, status) ==
    IF idx[pid] = "none" THEN idx ELSE [idx EXCEPT ![pid] = status]

\* search_face: top hit of the face collection, kept when its score reaches
\* the threshold; the frame carries its nearest neighbour and the score
search_face_unfiltered(f) ==
    <<[person_id |-> f.nn, status |-> faceIdx[f.nn], confidence |-> f.score]>>

\* a search that drops a hit scoring exactly the threshold
search_face_strict(f) ==
    IF f.score > FACE_SIMILARITY_THRESHOLD
    THEN <<[person_id |-> f.nn, status |-> faceIdx[f.nn], confidence |-> f.score]>>
    ELSE <<>>

search_face(f) ==
    IF f.score >= FACE_SIMILARITY_THRESHOLD
    THEN <<[person_id |-> f.nn, status |-> faceIdx[f.nn], confidence |-> f.score]>>
    ELSE <<>>

\* ------------------------------------------------------------- recognition
\* A frame: no face detected; an error raised inside the frame's try block (by
\* extract_embedding, search_face or get_person); or a face with its nearest
\* stored point and the similarity score.
Frames ==
    [kind : {"noface", "error"}, nn : {NoId}, score : {Null}]
    \cup [kind : {"face"}, nn : PersonIds, score : Scores]

Batches == UNION {[1..n -> Frames] : n \in 0..MaxFrames}

NoBest == [person_id |-> NoId, confidence |-> 0]

\* the loop body that keeps the first accepted candidate
RecognizeFrameFirst(best, f) ==
    IF f.kind \in {"noface", "error"} THEN best
    ELSE LET matches == search_face(f) IN
         IF matches = <<>> THEN best
         ELSE LET match == matches[1] IN
              IF match.status = "confirmed" /\ best.person_id = NoId
              THEN IF Exists(match.person_id)
                   THEN [person_id |-> match.person_id, confidence |-> match.confidence]
                   ELSE best
              ELSE best

\* the loop body without the status gate
RecognizeFrameAnyStatus(best, f) ==
    IF f.kind \in {"noface", "error"} THEN best
    ELSE LET matches == search_face(f) IN
         IF matches = <<>> THEN best
         ELSE LET match == matches[1] IN
              IF match.confidence > best.confidence
              THEN IF Exists(match.person_id)
                   THEN [person_id |-> match.person_id, confidence |-> match.confidence]
                   ELSE best
              ELSE best

\* a loop body in which a failing frame discards the best match so far
RecognizeFrameAborts(best, f) ==
    IF f.kind = "noface" THEN best
    ELSE IF f.kind = "error" THEN NoBest
    ELSE LET matches == search_face(f) IN
         IF matches = <<>> THEN best
         ELSE LET match == matches[1] IN
              IF match.status = "confirmed" /\ match.confidence > best.confidence
              THEN IF Exists(match.person_id)
                   THEN [person_id |-> match.person_id, confidence |-> match.confidence]
                   ELSE best
              ELSE best

\* a loop body that lets an equal score replace the best match so far
RecognizeFrameLast(best, f) ==
    IF f.kind \in {"noface", "error"} THEN best
    ELSE LET matches == search_face(f) IN
         IF matches = <<>> THEN best
         ELSE LET match == matches[1] IN
              IF match.status = "confirmed" /\ match.confidence >= best.confidence
              THEN IF Exists(match.person_id)
                   THEN [person_id |-> match.person_id, confidence |-> match.confidence]
                   ELSE best
              ELSE best

\* a loop body that trusts the index and skips the lookup of the person
RecognizeFrameNoLookup(best, f) ==
    IF f.kind \in {"noface", "error"} THEN best
    ELSE LET matches == search_face(f) IN
         IF matches = <<>> THEN best
         ELSE LET match == matches[1] IN
              IF match.status = "confirmed" /\ match.confidence > best.confidence
              THEN [person_id |-> match.person_id, confidence |-> match.confidence]
              ELSE best

\* the body of the loop over the frames
RecognizeFrame(best, f) ==
    IF f.kind \in {"noface", "error"} THEN best
    ELSE LET matches == search_face(f) IN
         IF matches = <<>> THEN best
         ELSE LET match == matches[1] IN
              IF match.status = "confirmed" /\ match.confidence > best.confidence
              THEN IF Exists(match.person_id)
                   THEN [person_id |-> match.person_id, confidence |-> match.confidence]
                   ELSE best
              ELSE best

RECURSIVE RecognizeLoop(_, _)
RecognizeLoop(frames, best) ==
    IF frames = <<>> THEN best
    ELSE RecognizeLoop(Tail(frames), RecognizeFrame(best, Head(frames)))

\* ------------------------------------------------------------- responses
NoResponse ==
    [op |-> "none", pid |-> NoId, code |-> 0, fault |-> "none",
     recognized |-> FALSE, confidence |-> 0, frames |-> <<>>]

\* no request is being served
Idle == last = NoResponse

Response(op, pid, code, fault) ==
    [op |-> op, pid |-> pid, code |-> code, fault |-> fault,
     recognized |-> FALSE, confidence |-> 0, frames |-> <<>>]

\* recognize_face
Recognize ==
    \E frames \in Batches, fault \in {"none", "last_seen"} :
        /\ Idle
        /\ \A i \in 1..Len(frames) :
               frames[i].kind = "face" => faceIdx[frames[i].nn] # "none"
        /\ LET best == RecognizeLoop(frames, NoBest)
               found == best.person_id # NoId
           IN /\ fault = "last_seen" => found
              /\ person' = IF found /\ fault = "none"
                           THEN [person EXCEPT ![best.person_id] = update_last_seen(@, clock)]
                           ELSE person
              /\ last' = IF frames = <<>> THEN Response("recognize", NoId, 400, fault)
                         ELSE IF ~found THEN [Response("recognize", NoId, 200, fault)
                                              EXCEPT !.frames = frames]
                         ELSE IF fault = "last_seen"
                              THEN [Response("recognize", NoId, 500, fault)
                                    EXCEPT !.frames = frames]
                         ELSE [Response("recognize", best.person_id, 200, fault)
                               EXCEPT !.frames = frames, !.recognized = TRUE,
                                      !.confidence = best.confidence]
        /\ UNCHANGED <<memories, routines, orphans, faceIdx, memIdx, thumbs, clock, nextId,
                       procs, conn>>

\* ------------------------------------------------------ identity lifecycle
EnrollFaults == {"none", "noface", "embed", "create_person", "vector", "thumb"}

\* enroll_person: extract, create the CONFIRMED person, store the embedding,
\* save the thumbnail; `fault` is the call that fails
Enroll ==
    /\ Idle
    /\ nextId <= MaxPersons
    /\ \E note \in BOOLEAN, fault \in EnrollFaults :
        LET pid == nextId
            created == fault \notin {"noface", "embed", "create_person"}
            stored == created /\ fault # "vector"
            saved == stored /\ fault # "thumb"
        IN /\ person' = IF created
                        THEN [person EXCEPT ![pid] =
                                 create_person("confirmed", "name", "relation", note, clock)]
                        ELSE person
           /\ nextId' = IF created THEN nextId + 1 ELSE nextId
           /\ faceIdx' = IF stored THEN [faceIdx EXCEPT ![pid] = "confirmed"] ELSE faceIdx
           /\ thumbs' = IF saved THEN [thumbs EXCEPT ![pid] = TRUE] ELSE thumbs
           /\ last' = Response("enroll", IF saved THEN pid ELSE NoId,
                               IF saved THEN 200 ELSE IF fault = "noface" THEN 400 ELSE 500,
                               fault)
    /\ UNCHANGED <<memories, routines, orphans, memIdx, clock, procs, conn>>

ConfirmFaults == {"none", "get_person", "name", "relation", "status", "vector"}

\* an update_person whose status statement is committed before the call fails
ConfirmWritesAll(fault) == 3

\* the statements of update_person that ran before the failing one
ConfirmWrites(fault) ==
    CASE fault = "name" -> 0
      [] fault = "relation" -> 1
      [] fault = "status" -> 2
      [] OTHER -> 3

\* confirm_person without the already-confirmed check
ConfirmCodeNoStateCheck(pid, fault) ==
    IF fault = "get_person" THEN 500
    ELSE IF ~Exists(pid) THEN 404
    ELSE IF fault \in {"name", "relation", "status"} THEN 500
    ELSE 200

\* confirm_person's status code
ConfirmCode(pid, fault) ==
    IF fault = "get_person" THEN 500
    ELSE IF ~Exists(pid) THEN 404
    ELSE IF person[pid].status = "confirmed" THEN 400
    ELSE IF fault \in {"name", "relation", "status"} THEN 500
    ELSE 200

\* a confirm that issues the payload update ahead of update_person
ConfirmIndexedFirst(code, fault) ==
    code \in {200, 500} /\ fault \notin {"get_person", "vector"}

\* the payload update of the vector index is reached and succeeds
ConfirmIndexed(code, fault) == code = 200 /\ fault = "none"

\* confirm_person
Confirm ==
    \E pid \in PersonIds, fault \in ConfirmFaults :
        /\ Idle
        /\ LET code == ConfirmCode(pid, fault)
            passed == code \in {200, 500} /\ fault # "get_person"
           IN /\ fault \in {"name", "relation", "status", "vector"} => passed
              /\ person' = IF passed
                           THEN [person EXCEPT ![pid] =
                                    update_person(@, ConfirmWrites(fault), clock)]
                           ELSE person
              /\ faceIdx' = IF ConfirmIndexed(code, fault)
                            THEN update_person_status(faceIdx, pid, "confirmed")
                            ELSE faceIdx
              /\ last' = Response("confirm", pid, code, fault)
        /\ UNCHANGED <<memories, routines, orphans, memIdx, thumbs, clock, nextId, procs, conn>>

DeleteFaults == {"none", "get_person", "graph", "vec_face", "vec_mem", "thumb"}

\* delete_person of the entity store: DETACH DELETE of the Person and of its
\* HAS_MEMORY memories; the Routine nodes lose their edge and stay
graph_delete_person(pid) ==
    /\ person' = [person EXCEPT ![pid] = Absent]
    /\ memories' = [memories EXCEPT ![pid] = 0]
    /\ routines' = [routines EXCEPT ![pid] = <<>>]
    /\ orphans' = [orphans EXCEPT ![pid] = @ \o routines[pid]]

\* delete_person_data: both deletes under one try; the error is swallowed
delete_person_data(pid, fault) ==
    /\ faceIdx' = IF fault = "vec_face" THEN faceIdx ELSE [faceIdx EXCEPT ![pid] = "none"]
    /\ memIdx' = IF fault \in {"vec_face", "vec_mem"} THEN memIdx
                 ELSE [memIdx EXCEPT ![pid] = 0]

\* delete_person (router)
Delete ==
    \E pid \in PersonIds, fault \in DeleteFaults :
        /\ Idle
        /\ fault \notin {"none", "get_person"} => Exists(pid)
        /\ fault = "thumb" => thumbs[pid]
        /\ IF fault = "get_person" \/ ~Exists(pid) \/ fault = "graph"
           THEN /\ UNCHANGED storeVars
                /\ last' = Response("delete", pid,
                                    IF fault = "get_person" \/ fault = "graph" THEN 500 ELSE 404,
                                    fault)
           ELSE /\ graph_delete_person(pid)
                /\ delete_person_data(pid, fault)
                /\ thumbs' = IF fault = "thumb" THEN thumbs ELSE [thumbs EXCEPT ![pid] = FALSE]
                /\ last' = Response("delete", pid, IF fault = "thumb" THEN 500 ELSE 200, fault)
        /\ UNCHANGED <<clock, nextId, procs, conn>>

\* time passes
Tick ==
    /\ Idle
    /\ clock < MaxClock
    /\ clock' = clock + 1
    /\ UNCHANGED <<storeVars, nextId, last, procs, conn>>

\* ------------------------------------------------------------ memory save
SaveFaults ==
    {"none", "get_person", "transcribe", "create_memory", "vector", "familiarity",
     "last_seen", "timestamp"}

\* save_memory: `fault` is the call that fails (an empty transcript is 400)
SaveMemory ==
    \E pid \in PersonIds, fault \in SaveFaults :
        /\ Idle
        /\ memories[pid] < MaxMem
        /\ fault \notin {"none", "get_person"} => Exists(pid)
        /\ LET found == fault # "get_person" /\ Exists(pid)
               created == found /\ fault \notin {"transcribe", "create_memory"}
               embedded == created /\ fault # "vector"
               scored == embedded /\ fault # "familiarity"
               seen == scored /\ fault # "last_seen"
               stamped == seen /\ fault # "timestamp"
               p1 == IF scored THEN update_familiarity(person[pid], FAMILIARITY_INCREMENT)
                     ELSE person[pid]
               p2 == IF seen THEN update_last_seen(p1, clock) ELSE p1
               p3 == IF stamped THEN update_person_timestamp(p2, "last_memory_saved", clock)
                     ELSE p2
           IN /\ memories' = IF created THEN [memories EXCEPT ![pid] = @ + 1] ELSE memories
              /\ memIdx' = IF embedded THEN [memIdx EXCEPT ![pid] = @ + 1] ELSE memIdx
              /\ person' = [person EXCEPT ![pid] = p3]
              /\ last' = Response("save_memory", pid,
                                  IF fault = "get_person" THEN 500
                                  ELSE IF ~Exists(pid) THEN 404
                                  ELSE IF fault = "transcribe" THEN 400
                                  ELSE IF fault = "none" THEN 200 ELSE 500,
                                  fault)
        /\ UNCHANGED <<routines, orphans, faceIdx, thumbs, clock, nextId, procs, conn>>

\* ----------------------------------------------------------- consolidation
ProcIds == {"w1", "w2", "manual", "save"}
Workers == {"w1", "w2"}

Texts == 1..MaxTexts

\* how the chat completion of extract_routines_from_memories ends: a JSON
\* list, an exception, or content that is no JSON list
LlmOutcomes == {"ok", "raised", "unparsable"}

\* what extract_routines_from_memories can return: nothing for no memories,
\* else up to MaxCands candidates (an error or unparsable output gives [])
Candidates == [text : Texts, confidence : {DEFAULT_CONFIDENCE}]

Extractions(n) ==
    IF n = 0 THEN {<<>>}
    ELSE UNION {[1..k -> Candidates] : k \in 0..MaxCands}

\* the return value for each way the completion ends
extract_routines_from_memories(n, llm) ==
    IF llm = "ok" THEN Extractions(n) ELSE {<<>>}

Routine(text, confidence, source) ==
    [text |-> text, confidence |-> confidence, source |-> source]

\* the extracted candidates written with the note's source tag
FromMemoriesAsNote(cands) ==
    [i \in 1..Len(cands) |-> Routine(cands[i].text, cands[i].confidence, "contextual_note")]

\* the routines created from the extracted candidates
FromMemories(cands) ==
    [i \in 1..Len(cands) |-> Routine(cands[i].text, cands[i].confidence, "memories")]

\* the note's routine written with the extraction's source tag
NoteRoutineAsMemory(text, confidence) == Routine(text, confidence, "memories")

\* the note's routine always written with the zero-memory confidence
NoteRoutineAtNoteConfidence(text, confidence) ==
    Routine(text, NOTE_CONFIDENCE, "contextual_note")

\* the routine created from the transformed contextual note
NoteRoutine(text, confidence) == Routine(text, confidence, "contextual_note")

\* the source values of a routine list
Sources(rs) == {rs[i].source : i \in 1..Len(rs)}

Min(a, b) == IF a <= b THEN a ELSE b

\* a process that runs no analysis
NoProc ==
    [pc |-> "off", queue |-> <<>>, pid |-> NoId, count |-> 0, note |-> FALSE,
     cands |-> <<>>, plan |-> <<>>, i |-> 0, before |-> <<>>, prev |-> <<>>,
     llm |-> "none", shutdown_flag |-> FALSE, nread |-> 0]

\* analyze_and_update_routines is entered for pid
StartRun(pr, pid) ==
    [pr EXCEPT !.pc = "count", !.pid = pid, !.count = 0, !.note = FALSE,
               !.cands = <<>>, !.plan = <<>>, !.i = 0, !.before = routines[pid],
               !.llm = "none", !.nread = 0]

\* what the script prints of a finished run: the person, the memory count
\* and candidate count of the run, and the routines read back
Summary(pr, stored) ==
    [pid |-> pr.pid, found |-> Exists(pr.pid), count |-> pr.count,
     ncands |-> Len(pr.cands), card |-> Len(stored), sources |-> Sources(stored)]

\* analyze_and_update_routines returns: the worker goes on to mark, the script
\* reads the routines back and ends
Finish(id, pr, stored) ==
    IF id \in Workers
    THEN [NoProc EXCEPT !.pc = "mark", !.queue = pr.queue, !.pid = pr.pid, !.llm = pr.llm,
                        !.prev = pr.prev, !.shutdown_flag = pr.shutdown_flag,
                        !.nread = pr.nread]
    ELSE [NoProc EXCEPT !.pc = "done",
                        !.prev = <<Summary(pr, stored)>> \o SubSeq(pr.prev, 1, Min(1, Len(pr.prev)))]

\* the worker's loop over people[:BATCH_SIZE]
NextInQueue(pr) ==
    IF pr.queue = <<>> THEN [NoProc EXCEPT !.pc = "sleep", !.shutdown_flag = pr.shutdown_flag]
    ELSE StartRun([pr EXCEPT !.queue = Tail(@)], Head(pr.queue))

\* extract_routines.py main(): the person is looked up, then analysed
ManualStart ==
    /\ Idle
    /\ procs["manual"].pc \in {"off", "done", "failed"}
    /\ \E pid \in PersonIds :
        /\ Exists(pid)
        /\ procs' = [procs EXCEPT !["manual"] = StartRun(@, pid)]
    /\ UNCHANGED <<storeVars, clock, nextId, last, conn>>

\* a selection that leaves out the persons never analysed
NeedsAnalysisOnlyStale(pid) ==
    /\ Exists(pid)
    /\ memories[pid] > 0
    /\ memories[pid] % 2 = 0
    /\ person[pid].last_routine_analysis # Null
    /\ person[pid].last_memory_saved # Null
    /\ person[pid].last_routine_analysis < person[pid].last_memory_saved

\* the WHERE clause of get_people_needing_routine_analysis
NeedsAnalysis(pid) ==
    /\ Exists(pid)
    /\ memories[pid] > 0
    /\ memories[pid] % 2 = 0
    /\ \/ person[pid].last_routine_analysis = Null
       \/ /\ person[pid].last_memory_saved # Null
          /\ person[pid].last_routine_analysis < person[pid].last_memory_saved

SeqsOf(S) ==
    {q \in [1..Cardinality(S) -> S] : \A i, j \in 1..Cardinality(S) : i # j => q[i] # q[j]}

\* get_people_needing_routine_analysis: LIMIT rows, in no stated order
get_people_needing_routine_analysis ==
    LET D == {pid \in DOMAIN person : NeedsAnalysis(pid)}
        n == Min(Cardinality(D), QUERY_LIMIT)
    IN UNION {SeqsOf(S) : S \in {T \in SUBSET D : Cardinality(T) = n}}

\* one cycle's query and the start of its batch
WorkerQuery(w) ==
    /\ Idle
    /\ procs[w].pc = "sleep"
    /\ ~procs[w].shutdown_flag
    /\ \E people \in get_people_needing_routine_analysis :
        /\ people # <<>>
        /\ procs' = [procs EXCEPT ![w] =
               NextInQueue([@ EXCEPT !.queue = SubSeq(people, 1, Min(Len(people), BATCH_SIZE))])]
    /\ UNCHANGED <<storeVars, clock, nextId, last, conn>>

\* memory_count = graph_db.get_memory_count(person_id)
AnalyzeCount(id) ==
    /\ Idle
    /\ procs[id].pc = "count"
    /\ procs' = [procs EXCEPT ![id] =
           [@ EXCEPT !.pc = "person", !.count = memories[procs[id].pid]]]
    /\ UNCHANGED <<storeVars, clock, nextId, last, conn>>

\* person = graph_db.get_person(person_id), and the zero-memory branch up to
\* the transformed note
AnalyzePerson(id) ==
    /\ Idle
    /\ procs[id].pc = "person"
    /\ LET pr == procs[id] IN
       IF ~Exists(pr.pid) THEN procs' = [procs EXCEPT ![id] = Finish(id, pr, routines[pr.pid])]
       ELSE IF pr.count = 0
            THEN IF person[pr.pid].note
                 THEN \E t \in Texts :
                         procs' = [procs EXCEPT ![id] =
                             [pr EXCEPT !.pc = "delete", !.note = TRUE,
                                        !.plan = <<NoteRoutine(t, NOTE_CONFIDENCE)>>]]
                 ELSE procs' = [procs EXCEPT ![id] = Finish(id, pr, routines[pr.pid])]
            ELSE procs' = [procs EXCEPT ![id] =
                     [pr EXCEPT !.pc = "memories", !.note = person[pr.pid].note]]
    /\ UNCHANGED <<storeVars, clock, nextId, last, conn>>

\* memories = graph_db.get_memories(person_id, limit=50), the extraction and
\* the fallback to the note
AnalyzeMemories(id) ==
    /\ Idle
    /\ procs[id].pc = "memories"
    /\ \E llm \in LlmOutcomes :
       LET n == Min(memories[procs[id].pid], MEMORY_WINDOW)
           pr == [procs[id] EXCEPT !.llm = IF n = 0 THEN "ok" ELSE llm, !.nread = n]
       IN
       \E cands \in extract_routines_from_memories(n, llm) :
          IF cands = <<>>
          THEN IF pr.note
               THEN \E t \in Texts :
                       procs' = [procs EXCEPT ![id] =
                           [pr EXCEPT !.pc = "delete",
                                      !.plan = <<NoteRoutine(t, FALLBACK_CONFIDENCE)>>]]
               ELSE procs' = [procs EXCEPT ![id] = Finish(id, pr, routines[pr.pid])]
          ELSE procs' = [procs EXCEPT ![id] =
                   [pr EXCEPT !.pc = "delete", !.cands = cands, !.plan = FromMemories(cands)]]
    /\ UNCHANGED <<storeVars, clock, nextId, last, conn>>

\* a rewrite that leaves the stored routines in place
keep_all_routines(pid) == routines

\* delete_all_routines
delete_all_routines(pid) == [routines EXCEPT ![pid] = <<>>]

\* graph_db.delete_all_routines(person_id)
AnalyzeDelete(id) ==
    /\ Idle
    /\ procs[id].pc = "delete"
    /\ routines' = delete_all_routines(procs[id].pid)
    /\ procs' = [procs EXCEPT ![id] = [@ EXCEPT !.pc = "create", !.i = 1]]
    /\ UNCHANGED <<person, memories, orphans, faceIdx, memIdx, thumbs, clock, nextId, last, conn>>

\* create_routine: MATCH the person, CREATE the routine and its edge
create_routine(pid, r) ==
    IF Exists(pid) THEN [routines EXCEPT ![pid] = Append(@, r)] ELSE routines

\* graph_db.create_routine(...) for the next routine of the run
AnalyzeCreate(id) ==
    /\ Idle
    /\ procs[id].pc = "create"
    /\ LET pr == procs[id] IN
       /\ routines' = create_routine(pr.pid, pr.plan[pr.i])
       /\ procs' = [procs EXCEPT ![id] =
              IF pr.i = Len(pr.plan) THEN Finish(id, pr, routines'[pr.pid])
              ELSE [pr EXCEPT !.i = @ + 1]]
    /\ UNCHANGED <<person, memories, orphans, faceIdx, memIdx, thumbs, clock, nextId, last, conn>>

\* graph_db.mark_routine_analysis_complete(person_id), then the next person
WorkerMark(w) ==
    /\ Idle
    /\ procs[w].pc = "mark"
    /\ person' = [p \in DOMAIN person |->
                     IF p = procs[w].pid
                     THEN update_person_timestamp(person[p], "last_routine_analysis", clock)
                     ELSE person[p]]
    /\ procs' = [procs EXCEPT ![w] = NextInQueue(@)]
    /\ UNCHANGED <<memories, routines, orphans, faceIdx, memIdx, thumbs, clock, nextId, last, conn>>

\* a worker that stamps the person although the analysis raised
FailMarks(id) ==
    /\ Idle
    /\ procs[id].pc \in {"count", "person", "memories", "delete", "create", "mark"}
    /\ person' = [p \in DOMAIN person |->
                     IF p = procs[id].pid
                     THEN update_person_timestamp(person[p], "last_routine_analysis", clock)
                     ELSE person[p]]
    /\ procs' = [procs EXCEPT ![id] = NextInQueue(@)]
    /\ UNCHANGED <<memories, routines, orphans, faceIdx, memIdx, thumbs, clock, nextId, last, conn>>

\* a worker that gives up the rest of the batch when a person fails
FailAborts(id) ==
    /\ Idle
    /\ procs[id].pc \in {"count", "person", "memories", "delete", "create", "mark"}
    /\ procs' = [procs EXCEPT ![id] =
           IF id \in Workers THEN [NoProc EXCEPT !.pc = "sleep"]
           ELSE [NoProc EXCEPT !.pc = "failed"]]
    /\ UNCHANGED <<storeVars, clock, nextId, last, conn>>

\* the store call of the current step raises: the worker logs it and goes on
\* to the next person without marking, the script ends with the error
Fail(id) ==
    /\ Idle
    /\ procs[id].pc \in {"count", "person", "memories", "delete", "create", "mark"}
    /\ procs' = [procs EXCEPT ![id] =
           IF id \in Workers THEN NextInQueue(@) ELSE [NoProc EXCEPT !.pc = "failed"]]
    /\ UNCHANGED <<storeVars, clock, nextId, last, conn>>

\* the worker process dies inside analyze_and_update_routines and is started
\* again; its log keeps what the interrupted run had read and stored
Crash(w) ==
    /\ Idle
    /\ procs[w].pc \in {"count", "person", "memories", "delete", "create"}
    /\ procs' = [procs EXCEPT ![w] =
           [NoProc EXCEPT !.pc = "sleep",
                          !.prev = <<Summary(procs[w], routines[procs[w].pid])>>]]
    /\ UNCHANGED <<storeVars, clock, nextId, last, conn>>

\* signal_handler: SIGINT or SIGTERM reaches the worker process
Signal(w) ==
    /\ Idle
    /\ procs[w].pc \notin {"off", "closed"}
    /\ ~procs[w].shutdown_flag
    /\ procs' = [procs EXCEPT ![w] = [@ EXCEPT !.shutdown_flag = TRUE]]
    /\ UNCHANGED <<storeVars, clock, nextId, last, conn>>

\* `while not shutdown_flag` is false: the loop is left and graph_db.close()
\* is called
WorkerExit(w) ==
    /\ Idle
    /\ procs[w].pc = "sleep"
    /\ procs[w].shutdown_flag
    /\ procs' = [procs EXCEPT ![w] = [NoProc EXCEPT !.pc = "closed", !.shutdown_flag = TRUE]]
    /\ UNCHANGED <<storeVars, clock, nextId, last, conn>>

Analyze(id) ==
    \/ AnalyzeCount(id)
    \/ AnalyzePerson(id)
    \/ AnalyzeMemories(id)
    \/ AnalyzeDelete(id)
    \/ AnalyzeCreate(id)
    \/ Fail(id)

\* ------------------------------------------------------- retry wrapper
Outcomes == {"ok", "transient", "other"}

\* what the store does to the successive attempts of one call
Scripts == [1..MAX_RETRIES -> Outcomes]

\* the client after a successful connect(), no call in progress
ConnUp ==
    [connected |-> TRUE, driver |-> TRUE, pc |-> "idle", pid |-> NoId, attempt |-> 0,
     script |-> <<>>, reconnects |-> <<>>, result |-> Absent,
     op |-> "none", outer |-> 0, queries |-> <<>>]

\* the except branch without the reset of _connected
OnTransientStayConnected(c) ==
    [c EXCEPT !.attempt = IF c.attempt < MAX_RETRIES - 1 THEN @ + 1 ELSE @,
              !.pc = IF c.attempt < MAX_RETRIES - 1 THEN "attempt" ELSE "raised"]

\* except (SessionExpired, ServiceUnavailable): _connected = False, then the
\* next attempt, or raise on the last one
OnTransient(c) ==
    [c EXCEPT !.connected = FALSE,
              !.attempt = IF c.attempt < MAX_RETRIES - 1 THEN @ + 1 ELSE @,
              !.pc = IF c.attempt < MAX_RETRIES - 1 THEN "attempt" ELSE "raised"]

\* graph_db.get_person(pid) is called through the wrapper
GetPersonCall ==
    /\ conn.pc = "idle"
    /\ \E pid \in PersonIds, script \in Scripts :
        conn' = [conn EXCEPT !.pc = "attempt", !.pid = pid, !.script = script,
                             !.op = "get_person"]
    /\ UNCHANGED <<storeVars, clock, nextId, last, procs>>

\* one iteration of the wrapper's loop: reconnect() when the client is not
\* connected, then the wrapped function; the failure strikes in connect() or
\* in the function, and a failed connect() leaves the driver set or not
Attempt ==
    /\ conn.pc = "attempt"
    /\ conn.op = "get_person"
    /\ LET need == ~conn.connected \/ ~conn.driver
           out == conn.script[conn.attempt + 1]
           c1 == [conn EXCEPT !.reconnects = Append(@, need)]
       IN \E at \in (IF need THEN {"connect", "func"} ELSE {"func"}), d \in BOOLEAN :
            conn' =
              IF out = "ok"
              THEN [c1 EXCEPT !.connected = TRUE, !.driver = TRUE, !.pc = "returned",
                              !.result = person[conn.pid], !.queries = Append(@, out)]
              ELSE LET c2 == IF at = "connect"
                             THEN [c1 EXCEPT !.connected = FALSE, !.driver = d]
                             ELSE [c1 EXCEPT !.connected = TRUE, !.driver = TRUE,
                                             !.queries = Append(@, out)]
                   IN IF out = "transient" THEN OnTransient(c2)
                      ELSE [c2 EXCEPT !.pc = "raised"]
    /\ UNCHANGED <<storeVars, clock, nextId, last, procs>>

\* graph_db.mark_routine_analysis_complete(pid) is called: a wrapped method
\* whose body calls the wrapped update_person_timestamp
MarkCall ==
    /\ conn.pc = "idle"
    /\ \E pid \in PersonIds :
        conn' = [conn EXCEPT !.pc = "attempt", !.pid = pid, !.op = "mark"]
    /\ UNCHANGED <<storeVars, clock, nextId, last, procs>>

\* one iteration of the inner wrapper's loop inside an iteration of the outer
\* wrapper's loop (counted by `outer`): the reconnect that precedes the first
\* inner iteration is the outer wrapper's, and an error in it is caught by
\* the outer except; the inner wrapper's raise after its last iteration is
\* caught by the outer except as well
MarkAttempt ==
    /\ conn.pc = "attempt"
    /\ conn.op = "mark"
    /\ LET need == ~conn.connected \/ ~conn.driver
           c1 == [conn EXCEPT !.reconnects = Append(@, need)]
       IN \E out \in Outcomes,
             at \in (IF need THEN {"connect", "func"} ELSE {"func"}), d \in BOOLEAN :
            /\ conn' =
                 IF out = "ok"
                 THEN [c1 EXCEPT !.connected = TRUE, !.driver = TRUE, !.pc = "returned",
                                 !.queries = Append(@, out)]
                 ELSE LET c2 == IF at = "connect"
                                THEN [c1 EXCEPT !.connected = FALSE, !.driver = d]
                                ELSE [c1 EXCEPT !.connected = TRUE, !.driver = TRUE,
                                                !.queries = Append(@, out)]
                          inner == ~(at = "connect" /\ conn.attempt = 0)
                      IN IF out = "other" THEN [c2 EXCEPT !.pc = "raised"]
                         ELSE IF inner /\ conn.attempt < MAX_RETRIES - 1
                              THEN [c2 EXCEPT !.connected = FALSE, !.attempt = @ + 1]
                         ELSE IF conn.outer < MAX_RETRIES - 1
                              THEN [c2 EXCEPT !.connected = FALSE, !.outer = @ + 1,
                                              !.attempt = 0]
                         ELSE [c2 EXCEPT !.connected = FALSE, !.pc = "raised"]
            /\ person' = IF out = "ok"
                         THEN [person EXCEPT ![conn.pid] =
                                  update_person_timestamp(@, "last_routine_analysis", clock)]
                         ELSE person
    /\ UNCHANGED <<memories, routines, orphans, faceIdx, memIdx, thumbs, clock, nextId, last,
                   procs>>

\* methods of the service that carry no retry decorator
DirectOps == {"update_last_seen", "update_familiarity"}

\* a call of such a method: self.driver.session() and one session.run, whose
\* exception, of whatever kind, leaves the method; without a driver the
\* attribute access fails
DirectCall ==
    /\ conn.pc = "idle"
    /\ \E op \in DirectOps, pid \in PersonIds,
          out \in (IF conn.driver THEN Outcomes ELSE {"other"}) :
        /\ conn' = [conn EXCEPT !.op = op, !.pid = pid,
                                !.pc = IF out = "ok" THEN "returned" ELSE "raised",
                                !.queries = IF conn.driver THEN <<out>> ELSE <<>>]
        /\ person' = IF out # "ok" THEN person
                     ELSE IF op = "update_last_seen"
                          THEN [person EXCEPT ![pid] = update_last_seen(@, clock)]
                          ELSE [person EXCEPT ![pid] =
                                   update_familiarity(@, FAMILIARITY_INCREMENT)]
    /\ UNCHANGED <<memories, routines, orphans, faceIdx, memIdx, thumbs, clock, nextId, last,
                   procs>>

\* the caller takes the result or the error
CallReturn ==
    /\ conn.pc \in {"returned", "raised"}
    /\ conn' = [ConnUp EXCEPT !.connected = conn.connected, !.driver = conn.driver]
    /\ UNCHANGED <<storeVars, clock, nextId, last, procs>>

\* ------------------------------------------------------------------- Init
\* A pending person as the stores hold it: create_person and
\* store_face_embedding with their default status "temporary".
Pending == create_person("temporary", "null", "null", FALSE, 1)

InitStores(n) ==
    /\ person = [p \in PersonIds |-> IF p < n THEN Pending ELSE Absent]
    /\ faceIdx = [p \in PersonIds |-> IF p < n THEN "temporary" ELSE "none"]
    /\ thumbs = [p \in PersonIds |-> p < n]
    /\ memories = [p \in PersonIds |-> 0]
    /\ routines = [p \in PersonIds |-> <<>>]
    /\ orphans = [p \in PersonIds |-> <<>>]
    /\ memIdx = [p \in PersonIds |-> 0]

Init ==
    /\ nextId \in 1..(MaxPersons + 1)
    /\ InitStores(nextId)
    /\ clock = 1
    /\ last = NoResponse
    /\ procs = [id \in ProcIds |-> NoProc]
    /\ conn = ConnUp

\* A confirmed person with m memories as enroll_person and m successful
\* save_memory calls leave it.
Known(note, m) ==
    [create_person("confirmed", "name", "relation", note, 1)
        EXCEPT !.last_memory_saved = IF m > 0 THEN 1 ELSE Null]

\* one person enrolled, with some memories and no routine stored yet
InitKnown ==
    /\ nextId = 2
    /\ \E note \in BOOLEAN, m \in 0..MaxMem :
        /\ person = [p \in PersonIds |-> IF p = 1 THEN Known(note, m) ELSE Absent]
        /\ memories = [p \in PersonIds |-> IF p = 1 THEN m ELSE 0]
        /\ memIdx = [p \in PersonIds |-> IF p = 1 THEN m ELSE 0]
    /\ faceIdx = [p \in PersonIds |-> IF p = 1 THEN "confirmed" ELSE "none"]
    /\ thumbs = [p \in PersonIds |-> p = 1]
    /\ routines = [p \in PersonIds |-> <<>>]
    /\ orphans = [p \in PersonIds |-> <<>>]

InitRoutine ==
    /\ InitKnown
    /\ clock = 1
    /\ last = NoResponse
    /\ procs = [id \in ProcIds |-> NoProc]
    /\ conn = ConnUp

\* both worker instances run
InitWorkers ==
    /\ InitKnown
    /\ clock = 1
    /\ last = NoResponse
    /\ procs = [id \in ProcIds |-> IF id \in Workers THEN [NoProc EXCEPT !.pc = "sleep"]
                                   ELSE NoProc]
    /\ conn = ConnUp

\* the application after lifespan startup: connect() succeeded, or failed with
\* the driver created or not
InitRetry ==
    /\ nextId \in 1..(MaxPersons + 1)
    /\ InitStores(nextId)
    /\ clock = 1
    /\ last = NoResponse
    /\ procs = [id \in ProcIds |-> NoProc]
    /\ \E up, d \in BOOLEAN :
        conn = IF up THEN ConnUp ELSE [ConnUp EXCEPT !.connected = FALSE, !.driver = d]

\* the response leaves the handler
Return ==
    /\ ~Idle
    /\ last' = NoResponse
    /\ UNCHANGED <<storeVars, clock, nextId, procs, conn>>

\* identity lifecycle
Next == Enroll \/ Confirm \/ Delete \/ Tick \/ Return

Spec == Init /\ [][Next]_vars

\* recognition over the stores the lifecycle produces
\* the lifecycle handlers, with requests that keep being served
SpecServing == Init /\ [][Next]_vars /\ WF_vars(Next)

NextRecognize == Enroll \/ Confirm \/ Delete \/ Recognize \/ Return

SpecRecognize == Init /\ [][NextRecognize]_vars

\* recognition beside the lifecycle handlers, as time passes
NextSeen == NextRecognize \/ Tick

SpecSeen == Init /\ [][NextSeen]_vars

\* every operation that reaches a Person node: enroll, confirm, recognize,
\* memory save and the consolidation worker
NextStatus ==
    \/ Enroll \/ Confirm \/ Recognize \/ SaveMemory \/ Return
    \/ WorkerQuery("w1") \/ WorkerMark("w1") \/ Analyze("w1")

\* one live person at a time, the worker asleep: either person 1 awaits
\* confirmation and the other id was used by a person since deleted, or id 1
\* was and the next enrollment takes the other
InitStatus ==
    /\ \E pending \in BOOLEAN :
        /\ nextId = IF pending THEN MaxPersons + 1 ELSE MaxPersons
        /\ InitStores(IF pending THEN 2 ELSE 1)
    /\ clock = 1
    /\ last = NoResponse
    /\ procs = [id \in ProcIds |-> IF id = "w1" THEN [NoProc EXCEPT !.pc = "sleep"]
                                   ELSE NoProc]
    /\ conn = ConnUp

SpecStatus == InitStatus /\ [][NextStatus]_vars

\* consolidation by the extraction script alone, beside the request handlers
NextRoutine ==
    SaveMemory \/ Delete \/ ManualStart \/ Analyze("manual") \/ Return

SpecRoutine == InitRoutine /\ [][NextRoutine]_vars

\* two worker instances over the same store
NextWorkers ==
    \/ \E w \in Workers : WorkerQuery(w) \/ WorkerMark(w)
    \/ \E w \in Workers : Analyze(w)

SpecWorkers == InitWorkers /\ [][NextWorkers]_vars

\* A person node whose familiarity_score property holds a number below the
\* cap, or is not set.
InitFamiliarity ==
    /\ nextId = 2
    /\ \E m \in 0..MaxMem,
          score \in {<<>>} \cup {<<v>> : v \in 0..(FAMILIARITY_CAP - 1)} :
        /\ person = [p \in PersonIds |->
                         IF p = 1 THEN [Known(FALSE, m) EXCEPT !.familiarity_score = score]
                         ELSE Absent]
        /\ memories = [p \in PersonIds |-> IF p = 1 THEN m ELSE 0]
        /\ memIdx = [p \in PersonIds |-> IF p = 1 THEN m ELSE 0]
    /\ faceIdx = [p \in PersonIds |-> IF p = 1 THEN "confirmed" ELSE "none"]
    /\ thumbs = [p \in PersonIds |-> p = 1]
    /\ routines = [p \in PersonIds |-> <<>>]
    /\ orphans = [p \in PersonIds |-> <<>>]
    /\ clock = 1
    /\ last = NoResponse
    /\ procs = [id \in ProcIds |-> NoProc]
    /\ conn = ConnUp

\* memory saves over a stored familiarity score
NextFamiliarity == SaveMemory \/ Return

SpecFamiliarity == InitFamiliarity /\ [][NextFamiliarity]_vars

\* The stamps a person with m memories can carry: last_memory_saved is set by
\* a complete save, last_routine_analysis by a worker that found an even
\* count, and an analysis older than the last save has seen a save since.
Stamps(m) ==
    {st \in [saved : 0..MaxClock, analysed : 0..MaxClock] :
        /\ m = 0 => st.saved = Null
        /\ m < 2 => st.analysed = Null
        /\ (st.analysed # Null /\ st.analysed < st.saved) => m >= 3}

\* one person enrolled, with its memories and stamps; the workers run and no
\* routine is stored yet
InitSchedule ==
    /\ nextId = 2
    /\ \E note \in BOOLEAN, m \in 0..(2 * MaxMem) :
        \E st \in Stamps(m) :
            /\ person = [p \in PersonIds |->
                             IF p = 1
                             THEN [Known(note, m) EXCEPT
                                      !.last_memory_saved = st.saved,
                                      !.last_routine_analysis = st.analysed]
                             ELSE Absent]
            /\ memories = [p \in PersonIds |-> IF p = 1 THEN m ELSE 0]
            /\ memIdx = [p \in PersonIds |-> IF p = 1 THEN m ELSE 0]
    /\ faceIdx = [p \in PersonIds |-> IF p = 1 THEN "confirmed" ELSE "none"]
    /\ thumbs = [p \in PersonIds |-> p = 1]
    /\ routines = [p \in PersonIds |-> <<>>]
    /\ orphans = [p \in PersonIds |-> <<>>]
    /\ clock = MaxClock
    /\ last = NoResponse
    /\ procs = [id \in ProcIds |-> IF id \in Workers THEN [NoProc EXCEPT !.pc = "sleep"]
                                   ELSE NoProc]
    /\ conn = ConnUp

\* the steps of a worker when no call fails
WorkerStep(w) ==
    \/ WorkerQuery(w)
    \/ AnalyzeCount(w)
    \/ AnalyzePerson(w)
    \/ AnalyzeMemories(w)
    \/ AnalyzeDelete(w)
    \/ AnalyzeCreate(w)
    \/ WorkerMark(w)

\* the workers keep cycling, no memory is saved and no call fails
NextSchedule == \E w \in Workers : WorkerStep(w)

SpecSchedule == InitSchedule /\ [][NextSchedule]_vars /\ WF_vars(NextSchedule)

\* one worker over one person, killed and restarted at any step
InitCrash ==
    /\ InitKnown
    /\ clock = 1
    /\ last = NoResponse
    /\ procs = [id \in ProcIds |-> IF id = "w1" THEN [NoProc EXCEPT !.pc = "sleep"]
                                   ELSE NoProc]
    /\ conn = ConnUp

NextCrash ==
    \/ SaveMemory \/ Return
    \/ WorkerQuery("w1") \/ WorkerMark("w1") \/ Analyze("w1") \/ Crash("w1")

SpecCrash == InitCrash /\ [][NextCrash]_vars

\* one worker and every person enrolled, each with some memories
InitBatch ==
    /\ nextId = MaxPersons + 1
    /\ \E note \in [PersonIds -> BOOLEAN], m \in [PersonIds -> 0..MaxMem] :
        /\ person = [p \in PersonIds |-> Known(note[p], m[p])]
        /\ memories = m
        /\ memIdx = m
    /\ faceIdx = [p \in PersonIds |-> "confirmed"]
    /\ thumbs = [p \in PersonIds |-> TRUE]
    /\ routines = [p \in PersonIds |-> <<>>]
    /\ orphans = [p \in PersonIds |-> <<>>]
    /\ clock = 1
    /\ last = NoResponse
    /\ procs = [id \in ProcIds |-> IF id = "w1" THEN [NoProc EXCEPT !.pc = "sleep"]
                                   ELSE NoProc]
    /\ conn = ConnUp

\* the cycles of that worker
NextBatch == WorkerQuery("w1") \/ WorkerMark("w1") \/ Analyze("w1")

SpecBatch == InitBatch /\ [][NextBatch]_vars

\* the cycles of that worker until a signal stops it
NextShutdown == NextBatch \/ Signal("w1") \/ WorkerExit("w1")

SpecShutdown == InitBatch /\ [][NextShutdown]_vars

\* one person whose two memories were saved earlier and never analysed, one
\* worker asleep: every stamp written from now on is later than the saves
InitLate ==
    /\ nextId = 2
    /\ \E note \in BOOLEAN :
        person = [p \in PersonIds |-> IF p = 1 THEN Known(note, 2) ELSE Absent]
    /\ memories = [p \in PersonIds |-> IF p = 1 THEN 2 ELSE 0]
    /\ memIdx = [p \in PersonIds |-> IF p = 1 THEN 2 ELSE 0]
    /\ faceIdx = [p \in PersonIds |-> IF p = 1 THEN "confirmed" ELSE "none"]
    /\ thumbs = [p \in PersonIds |-> p = 1]
    /\ routines = [p \in PersonIds |-> <<>>]
    /\ orphans = [p \in PersonIds |-> <<>>]
    /\ clock = MaxClock
    /\ last = NoResponse
    /\ procs = [id \in ProcIds |-> IF id = "w1" THEN [NoProc EXCEPT !.pc = "sleep"]
                                   ELSE NoProc]
    /\ conn = ConnUp

\* memory saves beside the cycles of that worker
NextLate ==
    \/ SaveMemory \/ Return
    \/ WorkerQuery("w1") \/ WorkerMark("w1") \/ Analyze("w1")

SpecLate == InitLate /\ [][NextLate]_vars

\* save_memory call by call, for a request served beside other requests:
\* the lookup of the person comes first
SaveStart ==
    \E pid \in PersonIds :
        /\ procs["save"].pc = "off"
        /\ memories[pid] < MaxMem
        /\ procs' = [procs EXCEPT !["save"] =
                         [NoProc EXCEPT !.pid = pid,
                                        !.pc = IF Exists(pid) THEN "create" ELSE "done"]]
        /\ UNCHANGED <<storeVars, clock, nextId, last, conn>>

SaveCalls == {"create", "embed", "score", "seen", "stamp"}

\* the next call of the save: create_memory matches the person and creates
\* the memory only when the person is there; store_memory_embedding upserts
\* the tagged point whatever the entity store holds; the three updates of the
\* person match nothing when the person is gone
SaveStep ==
    LET pr == procs["save"]
        pid == pr.pid
        next == CASE pr.pc = "create" -> "embed"
                  [] pr.pc = "embed" -> "score"
                  [] pr.pc = "score" -> "seen"
                  [] pr.pc = "seen" -> "stamp"
                  [] OTHER -> "done"
    IN /\ pr.pc \in SaveCalls
       /\ memories' = IF pr.pc = "create" /\ Exists(pid)
                      THEN [memories EXCEPT ![pid] = @ + 1] ELSE memories
       /\ memIdx' = IF pr.pc = "embed" THEN [memIdx EXCEPT ![pid] = @ + 1] ELSE memIdx
       /\ person' = CASE pr.pc = "score" ->
                            [person EXCEPT ![pid] = update_familiarity(@, FAMILIARITY_INCREMENT)]
                      [] pr.pc = "seen" ->
                            [person EXCEPT ![pid] = update_last_seen(@, clock)]
                      [] pr.pc = "stamp" ->
                            [person EXCEPT ![pid] =
                                update_person_timestamp(@, "last_memory_saved", clock)]
                      [] OTHER -> person
       /\ procs' = [procs EXCEPT !["save"].pc = next]
       /\ UNCHANGED <<routines, orphans, faceIdx, thumbs, clock, nextId, last, conn>>

\* the call raises and the request ends with 500
SaveRaise ==
    /\ procs["save"].pc \in SaveCalls
    /\ procs' = [procs EXCEPT !["save"].pc = "done"]
    /\ UNCHANGED <<storeVars, clock, nextId, last, conn>>

\* one person with no memory or two, no request in progress
InitRace ==
    /\ nextId = 2
    /\ \E note \in BOOLEAN, m \in {0, 2} :
        /\ person = [p \in PersonIds |-> IF p = 1 THEN Known(note, m) ELSE Absent]
        /\ memories = [p \in PersonIds |-> IF p = 1 THEN m ELSE 0]
        /\ memIdx = [p \in PersonIds |-> IF p = 1 THEN m ELSE 0]
    /\ faceIdx = [p \in PersonIds |-> IF p = 1 THEN "confirmed" ELSE "none"]
    /\ thumbs = [p \in PersonIds |-> p = 1]
    /\ routines = [p \in PersonIds |-> <<>>]
    /\ orphans = [p \in PersonIds |-> <<>>]
    /\ clock = 1
    /\ last = NoResponse
    /\ procs = [id \in ProcIds |-> NoProc]
    /\ conn = ConnUp

\* a delete request served while a save request is between two of its calls
NextRace == SaveStart \/ SaveStep \/ SaveRaise \/ Delete \/ Return

SpecRace == InitRace /\ [][NextRace]_vars

\* one more person than a batch holds, each with two memories and never
\* analysed, and one worker asleep
Crowd == 1..(BATCH_SIZE + 1)

InitCrowd ==
    /\ nextId = BATCH_SIZE + 2
    /\ person = [p \in Crowd |-> Known(FALSE, 2)]
    /\ memories = [p \in Crowd |-> 2]
    /\ memIdx = [p \in Crowd |-> 2]
    /\ faceIdx = [p \in Crowd |-> "confirmed"]
    /\ thumbs = [p \in Crowd |-> TRUE]
    /\ routines = [p \in Crowd |-> <<>>]
    /\ orphans = [p \in Crowd |-> <<>>]
    /\ clock = 1
    /\ last = NoResponse
    /\ procs = [id \in ProcIds |-> IF id = "w1" THEN [NoProc EXCEPT !.pc = "sleep"]
                                   ELSE NoProc]
    /\ conn = ConnUp

\* the persons whose consolidation fails whenever it is tried
Failing == 1..BATCH_SIZE

\* the worker keeps cycling: a run on a failing person raises at its first
\* store call, a run on another person takes any of its steps
NextCrowd ==
    \/ WorkerQuery("w1")
    \/ procs["w1"].pid \in Failing /\ Fail("w1")
    \/ procs["w1"].pid \notin Failing /\ (Analyze("w1") \/ WorkerMark("w1"))

SpecCrowd == InitCrowd /\ [][NextCrowd]_vars /\ WF_vars(NextCrowd)

\* calls of get_person through the retry wrapper
NextRetry == GetPersonCall \/ Attempt \/ CallReturn

SpecRetry == InitRetry /\ [][NextRetry]_vars

\* calls of a wrapped method and of methods without the decorator
NextDirect == NextRetry \/ DirectCall

SpecDirect == InitRetry /\ [][NextDirect]_vars

\* calls of a wrapped method and of a wrapped method that calls another one
NextRetryNested == NextRetry \/ MarkCall \/ MarkAttempt

SpecRetryNested == InitRetry /\ [][NextRetryNested]_vars

\* ------------------------------------------------------------------ claims
\* While a response is pending no other handler runs (Idle guards them), so
\* in a state with last.op = "recognize" the stores are those the call read
\* (recognize_face writes last_seen_at only).

\* the frames of the served batch whose nearest stored point is CONFIRMED
ConfirmedCandidates == 
    {i \in 1..Len(last.frames) :
        last.frames[i].kind = "face" /\ faceIdx[last.frames[i].nn] = "confirmed"}

\* ... and whose person the entity store still holds
LiveCandidates == {i \in ConfirmedCandidates : Exists(last.frames[i].nn)}

IsBestOf(cands) ==
    /\ \A i \in cands : last.frames[i].score <= last.confidence
    /\ \E i \in cands : /\ last.frames[i].score = last.confidence
                         /\ last.frames[i].nn = last.pid

\* C1 as stated: a returned match carries the maximum similarity score among
\* all per-frame candidates whose stored status is CONFIRMED, and is the person
\* of that candidate.
C1_MaxOverConfirmed ==
    (last.op = "recognize" /\ last.recognized) => IsBestOf(ConfirmedCandidates)

\* C1 amended: a returned match carries the maximum similarity score among the
\* per-frame CONFIRMED candidates whose person exists in the entity store, and
\* is the person of that candidate; a CONFIRMED candidate whose person is
\* missing from the entity store is skipped.
C1_MaxOverLiveConfirmed ==
    (last.op = "recognize" /\ last.recognized) => IsBestOf(LiveCandidates)

\* two frames match two CONFIRMED persons and the later frame scores higher
C1_Witness ==
    /\ last.op = "recognize" /\ last.recognized
    /\ Len(last.frames) = 2
    /\ LiveCandidates = {1, 2}
    /\ last.frames[1].nn # last.frames[2].nn
    /\ last.frames[1].score < last.frames[2].score
    /\ last.pid = last.frames[2].nn

\* C2: when no frame's nearest stored point has status CONFIRMED the result
\* is not recognized with an empty person_id, whatever the scores.
C2_NoConfirmedNoMatch ==
    (last.op = "recognize" /\ last.code = 200 /\ ConfirmedCandidates = {})
        => (~last.recognized /\ last.pid = NoId)

\* a TEMPORARY candidate above the threshold, of an existing person, is refused
C2_Witness ==
    /\ last.op = "recognize" /\ last.code = 200 /\ ~last.recognized
    /\ ConfirmedCandidates = {}
    /\ \E i \in 1..Len(last.frames) :
           /\ last.frames[i].kind = "face"
           /\ faceIdx[last.frames[i].nn] = "temporary"
           /\ Exists(last.frames[i].nn)
           /\ last.frames[i].score > FACE_SIMILARITY_THRESHOLD

\* C3: confirm of a missing or already CONFIRMED person never succeeds and
\* writes to neither store; when the lookup answers it fails with 404
\* (missing) or 400 (already confirmed).
C3_ConfirmRejected ==
    [][(Idle /\ last'.op = "confirm"
           /\ (~Exists(last'.pid) \/ person[last'.pid].status = "confirmed"))
        => /\ last'.code # 200
           /\ UNCHANGED storeVars
           /\ last'.fault # "get_person"
                 => last'.code = IF Exists(last'.pid) THEN 400 ELSE 404]_vars

\* confirm of a CONFIRMED person answered 400
C3_Witness ==
    /\ last.op = "confirm" /\ last.code = 400
    /\ person[last.pid].status = "confirmed"

\* ---------------------------------------------------------------- deletion
\* C4 (as stated): after a delete that answers 200 with every store call
\* succeeding, the entity store holds no Person, Memory or Routine of the
\* person and neither collection of the vector index holds an entry of it.
C4_DeleteRemovesAll ==
    (last.op = "delete" /\ last.code = 200 /\ last.fault = "none") =>
        /\ ~Exists(last.pid)
        /\ memories[last.pid] = 0
        /\ routines[last.pid] = <<>>
        /\ orphans[last.pid] = <<>>
        /\ faceIdx[last.pid] = "none"
        /\ memIdx[last.pid] = 0

\* ----------------------------------------------------------- consolidation
manual == procs["manual"]

\* C5: two consecutive finished runs of the consolidation on the same person
\* that still exists, with the same memory count and the same number of
\* candidates, leave routine sets of the same cardinality and sources.
C5_Idempotent ==
    (manual.pc = "done" /\ Len(manual.prev) = 2) =>
        LET second == manual.prev[1]
            first == manual.prev[2]
        IN (/\ first.pid = second.pid
            /\ first.found /\ second.found
            /\ first.count = second.count
            /\ first.ncands = second.ncands)
           => (first.card = second.card /\ first.sources = second.sources)

\* two such runs that each wrote two routines from memories
C5_Witness ==
    /\ manual.pc = "done"
    /\ Len(manual.prev) = 2
    /\ manual.prev[1].pid = manual.prev[2].pid
    /\ manual.prev[1].found /\ manual.prev[2].found
    /\ manual.prev[1].count = manual.prev[2].count
    /\ manual.prev[1].ncands = 2 /\ manual.prev[2].ncands = 2
    /\ manual.prev[1].card = 2
    /\ Len(routines[manual.prev[1].pid]) = 2

InFlight(pr) == pr.pc \in {"count", "person", "memories", "delete", "create"}

\* C6 (as stated): whenever a reader could look, or the run could stop, the
\* stored routine set of a person under consolidation is the complete
\* previous set or the complete new set.
C6_ReplacedAsUnit ==
    \A id \in ProcIds :
        (procs[id].pc \in {"delete", "create"} /\ Exists(procs[id].pid)) =>
            routines[procs[id].pid] \in {procs[id].before, procs[id].plan}

\* C7 (as stated): no two consolidations of the same person are in flight.
C7_AtMostOneInFlight ==
    \A a, b \in ProcIds :
        (a # b /\ InFlight(procs[a]) /\ InFlight(procs[b])) =>
            procs[a].pid # procs[b].pid

\* the step on which the script's analysis returns
ManualFinishes == manual.pc \in {"person", "memories", "create"} /\ procs'["manual"].pc = "done"

\* C8: when the run counted at least one memory and the extraction returned
\* k >= 1 candidates, the run ends with the person (if still there) holding
\* exactly those k candidates, each with source "memories".
C8_ExactlyTheCandidates ==
    [][(/\ ManualFinishes
        /\ manual.count >= 1
        /\ Len(manual.cands) >= 1
        /\ Exists(manual.pid))
       => /\ Len(routines'[manual.pid]) = Len(manual.cands)
          /\ \A i \in 1..Len(manual.cands) :
                /\ routines'[manual.pid][i].text = manual.cands[i].text
                /\ routines'[manual.pid][i].confidence = manual.cands[i].confidence
                /\ routines'[manual.pid][i].source = "memories"]_vars

\* a finished run of two candidates over a person that held a note routine
C8_Witness ==
    /\ manual.pc = "done"
    /\ Len(manual.prev) = 2
    /\ manual.prev[1].pid = manual.prev[2].pid
    /\ manual.prev[1].found
    /\ manual.prev[1].count >= 1
    /\ manual.prev[1].ncands = 2
    /\ manual.prev[2].sources = {"contextual_note"}
    /\ Exists(manual.prev[1].pid)
    /\ Sources(routines[manual.prev[1].pid]) = {"memories"}

\* C9: when the run counted zero memories, a person with a note ends with
\* exactly one routine, source "contextual_note", confidence 0.6; for a person
\* without a note no step of the run writes and the routine set is as before.
C9_ZeroMemories ==
    [][(ManualFinishes /\ manual.count = 0 /\ Exists(manual.pid))
       => IF person[manual.pid].note
          THEN /\ Len(routines'[manual.pid]) = 1
               /\ routines'[manual.pid][1].source = "contextual_note"
               /\ routines'[manual.pid][1].confidence = NOTE_CONFIDENCE
          ELSE /\ UNCHANGED storeVars
               /\ routines[manual.pid] = manual.before]_vars

\* two zero-memory runs over a person with a note: the second replaced the
\* routine of the first
C9_Witness ==
    /\ manual.pc = "done"
    /\ Len(manual.prev) = 2
    /\ manual.prev[1].pid = manual.prev[2].pid
    /\ manual.prev[1].found
    /\ manual.prev[1].count = 0
    /\ manual.prev[2].card = 1
    /\ Exists(manual.prev[1].pid)
    /\ person[manual.prev[1].pid].note
    /\ Len(routines[manual.prev[1].pid]) = 1
    /\ routines[manual.prev[1].pid][1].confidence = NOTE_CONFIDENCE

\* ------------------------------------------------------------ retry wrapper
\* the store fails the first one or two attempts with a transient
\* connectivity error and serves the next one
TransientThenOk(script) ==
    \E k \in {1, 2} :
        /\ \A i \in 1..k : script[i] = "transient"
        /\ script[k + 1] = "ok"

\* C10: a retry-wrapped get_person whose first one or two attempts meet a
\* transient connectivity error and whose next attempt succeeds returns the
\* stored person (or none), raises nothing, and has called reconnect() at the
\* start of every retry.
C10_RetryRecovers ==
    (conn.pc \in {"returned", "raised"} /\ TransientThenOk(conn.script)) =>
        /\ conn.pc = "returned"
        /\ conn.result = person[conn.pid]
        /\ \A i \in 2..Len(conn.reconnects) : conn.reconnects[i]

\* two transient failures, the third attempt returns an existing person
C10_Witness ==
    /\ conn.pc = "returned"
    /\ conn.script[1] = "transient"
    /\ conn.script[2] = "transient"
    /\ conn.script[3] = "ok"
    /\ Len(conn.reconnects) = 3
    /\ Exists(conn.pid)
    /\ conn.result = person[conn.pid]

\* -------------------------------------------------------------- familiarity
\* C11: no step lowers the familiarity score of a person or takes it above
\* 1.0, whatever the sequence of memory saves.
C11_FamiliarityBounded ==
    [][\A p \in PersonIds :
          (person[p].familiarity_score # <<>> /\ person'[p].status # "absent") =>
              /\ person'[p].familiarity_score # <<>>
              /\ person'[p].familiarity_score[1] >= person[p].familiarity_score[1]
              /\ person'[p].familiarity_score[1] <= FAMILIARITY_CAP]_vars

\* a successful save has brought a score that started below the cap to it
C11_Witness ==
    /\ last.op = "save_memory"
    /\ last.code = 200
    /\ person[last.pid].familiarity_score = <<FAMILIARITY_CAP>>

\* ----------------------------------------------------------------- worker
\* the person has a memory and no analysis since the last save
Dirty(p) ==
    /\ Exists(p)
    /\ memories[p] >= 1
    /\ \/ person[p].last_routine_analysis = Null
       \/ /\ person[p].last_memory_saved # Null
          /\ person[p].last_routine_analysis < person[p].last_memory_saved

Marked(p) ==
    /\ person[p].last_routine_analysis # Null
    /\ \/ person[p].last_memory_saved = Null
       \/ person[p].last_routine_analysis >= person[p].last_memory_saved

\* C12 (as stated): every dirty person with at least one memory is
\* eventually consolidated and marked by the worker.
C12_DirtyEventuallyMarked ==
    \A p \in PersonIds : Dirty(p) ~> Marked(p)

\* C12 (amended): every dirty person with an even, non-zero number of
\* memories is eventually consolidated and marked by the worker.
C12_EvenDirtyEventuallyMarked ==
    \A p \in PersonIds : (Dirty(p) /\ memories[p] % 2 = 0) ~> Marked(p)

\* a person whose analysis was older than its last save has been marked
C12_Witness ==
    \E p \in PersonIds :
        /\ memories[p] = 4
        /\ person[p].last_memory_saved = MaxClock
        /\ person[p].last_routine_analysis = MaxClock
        /\ Sources(routines[p]) = {"memories"}
        /\ \A w \in Workers : procs[w].pc = "sleep"

\* C13: only the mark step of a worker writes last_routine_analysis, for the
\* person whose analysis that worker has just seen return; a step on which a
\* worker leaves an analysis by an exception leaves the stamp as it was, and
\* a person selected by the query before it is selected after it.
C13_MarkOnlyAfterAnalysis ==
    [][\A p \in PersonIds :
          /\ person'[p].last_routine_analysis # person[p].last_routine_analysis =>
                \E w \in Workers : procs[w].pc = "mark" /\ procs[w].pid = p
          /\ \A w \in Workers :
                (InFlight(procs[w]) /\ procs[w].pid = p /\ procs'[w] # procs[w]
                 /\ ~InFlight(procs'[w]) /\ procs'[w].pc # "mark") =>
                    /\ person'[p].last_routine_analysis = person[p].last_routine_analysis
                    /\ NeedsAnalysis(p) => NeedsAnalysis(p)']_vars

\* a worker has marked a person whose routines it rewrote
C13_Witness ==
    \E p \in PersonIds :
        /\ person[p].last_routine_analysis = clock
        /\ Len(routines[p]) >= 1
        /\ \E w \in Workers : procs[w].pc = "sleep"

\* ------------------------------------------------------------- recognition
FaceScores == {last.frames[i].score : i \in {j \in 1..Len(last.frames) : last.frames[j].kind = "face"}}

\* C14 (as stated): a returned match has a score strictly above the
\* threshold, and a batch with no score strictly above it is not recognized.
C14_ExceedsThreshold ==
    last.op = "recognize" =>
        /\ last.recognized => last.confidence > FACE_SIMILARITY_THRESHOLD
        /\ (\A sc \in FaceScores : sc <= FACE_SIMILARITY_THRESHOLD) => ~last.recognized

\* C14 (amended): a returned match has a score of at least the threshold, and
\* a batch with every score below the threshold is not recognized.
C14_AtLeastThreshold ==
    last.op = "recognize" =>
        /\ last.recognized => last.confidence >= FACE_SIMILARITY_THRESHOLD
        /\ (\A sc \in FaceScores : sc < FACE_SIMILARITY_THRESHOLD) => ~last.recognized

\* a match returned at exactly the threshold beside a frame below it
C14_Witness ==
    /\ last.op = "recognize" /\ last.recognized
    /\ last.confidence = FACE_SIMILARITY_THRESHOLD
    /\ \E sc \in FaceScores : sc < FACE_SIMILARITY_THRESHOLD

RemoveAt(seq, i) == SubSeq(seq, 1, i - 1) \o SubSeq(seq, i + 1, Len(seq))

\* C15: a frame without a face, or whose processing raised, changes nothing:
\* the answer to the batch is the answer to the batch without that frame
\* (same acceptance, same person, same confidence), when another frame remains.
C15_BadFrameIgnored ==
    (last.op = "recognize" /\ Len(last.frames) >= 2) =>
        \A i \in 1..Len(last.frames) :
            last.frames[i].kind \in {"noface", "error"} =>
                LET rest == RecognizeLoop(RemoveAt(last.frames, i), NoBest) IN
                /\ last.code \in {200, 500}
                /\ (last.recognized \/ last.code = 500) = (rest.person_id # NoId)
                /\ last.recognized =>
                      (last.pid = rest.person_id /\ last.confidence = rest.confidence)

\* a frame that matches is followed by a frame that raised
C15_Witness ==
    /\ last.op = "recognize" /\ last.recognized
    /\ Len(last.frames) = 2
    /\ last.frames[1].kind = "face"
    /\ last.frames[2].kind = "error"
    /\ last.pid = last.frames[1].nn

\* ------------------------------------------------------- identity lifecycle
\* C16 (as stated): the face points of a CONFIRMED person eventually carry
\* status confirmed in the vector index (or the person is no longer a
\* CONFIRMED person of the entity store).
C16_IndexEventuallyConfirmed ==
    \A p \in PersonIds :
        (person[p].status = "confirmed" /\ faceIdx[p] = "temporary")
            ~> (faceIdx[p] = "confirmed" \/ person[p].status # "confirmed")

\* C17: the vector index never shows status confirmed for a person whose
\* entity-store status is still TEMPORARY, wherever a confirm stops.
C17_EntityStoreFirst ==
    \A p \in PersonIds : faceIdx[p] = "confirmed" => person[p].status # "temporary"

\* a confirm that went through both writes
C17_Witness ==
    /\ last.op = "confirm" /\ last.code = 200 /\ last.fault = "none"
    /\ person[last.pid].status = "confirmed"
    /\ faceIdx[last.pid] = "confirmed"

\* C18 (as stated): a delete of an existing person whose entity-store cascade
\* succeeded answers 200 even when the vector-index cleanup or the thumbnail
\* removal fails, and the failing step does not stop the other one.
C18_BestEffortCleanup ==
    (last.op = "delete" /\ last.fault \in {"vec_face", "vec_mem", "thumb"}) =>
        /\ last.code = 200
        /\ ~Exists(last.pid)
        /\ last.fault \in {"vec_face", "vec_mem"} => ~thumbs[last.pid]
        /\ last.fault = "thumb" => (faceIdx[last.pid] = "none" /\ memIdx[last.pid] = 0)

\* C19: a recognize request changes no status in either store; the one thing
\* it may write is last_seen_at of the person it returns as the match.
C19_RecognizeOnlyTouchesLastSeen ==
    [][(Idle /\ last'.op = "recognize") =>
          /\ UNCHANGED <<memories, routines, orphans, faceIdx, memIdx, thumbs>>
          /\ \A p \in PersonIds :
                \/ person'[p] = person[p]
                \/ /\ last'.recognized
                   /\ p = last'.pid
                   /\ person'[p] = [person[p] EXCEPT !.last_seen_at = clock]]_vars

\* an accepted match has moved last_seen_at of a person created earlier
C19_Witness ==
    /\ last.op = "recognize" /\ last.recognized
    /\ person[last.pid].created_at < clock
    /\ person[last.pid].last_seen_at = clock

\* C20: status only moves forward: a CONFIRMED person is never TEMPORARY
\* afterwards, and a person is CONFIRMED only by the step of an enroll or of
\* a confirm that answers 200 for that person.
C20_StatusMonotonic ==
    [][\A p \in PersonIds :
          /\ person[p].status = "confirmed" => person'[p].status # "temporary"
          /\ (person[p].status # "confirmed" /\ person'[p].status = "confirmed") =>
                /\ Idle
                /\ \/ last'.op = "enroll"
                   \/ last'.op = "confirm" /\ last'.pid = p /\ last'.code = 200]_vars

\* a pending person has been confirmed and has since had a memory saved
C20_Witness ==
    /\ last.op = "save_memory" /\ last.code = 200
    /\ person[last.pid].status = "confirmed"
    /\ person[last.pid].name = "name"
    /\ person[last.pid].confirmed_at # Null

\* C21: confirmed_at is unset while a person is TEMPORARY, set as soon as the
\* person is CONFIRMED, by enrollment or by confirm, and never written again.
C21_ConfirmedAtSetOnce ==
    /\ [](\A p \in PersonIds :
            /\ person[p].status = "temporary" => person[p].confirmed_at = Null
            /\ person[p].status = "confirmed" => person[p].confirmed_at # Null)
    /\ [][\A p \in PersonIds :
            (person[p].confirmed_at # Null /\ person'[p].status # "absent") =>
                person'[p].confirmed_at = person[p].confirmed_at]_vars

\* C22: a recognize that answers "not recognized" leaves a new TEMPORARY
\* person in the entity store.
C22_UnrecognizedCreatesTemporary ==
    [][(Idle /\ nextId <= MaxPersons /\ last'.op = "recognize"
             /\ last'.code = 200 /\ ~last'.recognized) =>
          \E p \in PersonIds :
              ~Exists(p) /\ person'[p].status = "temporary"]_vars

\* C23: a worker whose consolidation of a person failed, by a store call
\* raising or by the completion raising or returning unparsable output, does
\* not write that person's last_routine_analysis in that cycle.
C23_FailedRunNotMarked ==
    [][\A w \in Workers :
          (/\ procs'[w] # procs[w]
           /\ procs[w].pid # NoId
           /\ procs[w].pc # "mark" \/ procs[w].llm \in {"raised", "unparsable"}) =>
              person'[procs[w].pid].last_routine_analysis =
                  person[procs[w].pid].last_routine_analysis]_vars

\* C24: when a run that was interrupted by a crash is repeated to the end
\* with the same extraction result, the stored routines are exactly the
\* extracted candidates.
C24_RerunReplaces ==
    [][\A w \in Workers :
          LET pr == procs[w] IN
          (/\ pr.pc = "create" /\ pr.i = Len(pr.plan) /\ procs'[w].pc = "mark"
           /\ pr.cands # <<>>
           /\ pr.prev # <<>> /\ pr.prev[1].pid = pr.pid
           /\ pr.prev[1].ncands = Len(pr.cands)) =>
              routines'[pr.pid] = FromMemories(pr.cands)]_vars

\* a run that crashed between its two inserts has been repeated to the end
C24_Witness ==
    /\ procs["w1"].pc = "mark"
    /\ procs["w1"].prev # <<>>
    /\ procs["w1"].prev[1].pid = procs["w1"].pid
    /\ procs["w1"].prev[1].ncands = MaxCands
    /\ procs["w1"].prev[1].card = 1
    /\ Len(routines[procs["w1"].pid]) = MaxCands

\* the frames of `cands` that search_face returns and that score highest
TopOf(cands) ==
    LET C == {i \in cands : last.frames[i].score >= FACE_SIMILARITY_THRESHOLD}
    IN {i \in C : \A j \in C : last.frames[j].score <= last.frames[i].score}

EarliestOf(cands) ==
    (last.op = "recognize" /\ last.code = 200 /\ Cardinality(TopOf(cands)) >= 2) =>
        /\ last.recognized
        /\ \E i \in TopOf(cands) :
              /\ \A j \in TopOf(cands) : i <= j
              /\ last.pid = last.frames[i].nn

\* C25 as stated: when several frames yield CONFIRMED candidates with the
\* same maximal score, the candidate of the earliest of them is returned.
C25_EarliestOfConfirmed == EarliestOf(ConfirmedCandidates)

\* C25 amended: ... among the CONFIRMED candidates whose person the entity
\* store still holds, the candidate of the earliest frame is returned.
C25_EarliestOfLiveConfirmed == EarliestOf(LiveCandidates)

\* two frames match two different CONFIRMED persons with the same score
C25_Witness ==
    /\ last.op = "recognize" /\ last.recognized
    /\ TopOf(LiveCandidates) = {1, 2}
    /\ last.frames[1].nn # last.frames[2].nn
    /\ last.pid = last.frames[1].nn

\* C26: when the run counted at least one memory and the extraction returned
\* no candidate, a person with a note ends with exactly one routine, source
\* "contextual_note", confidence 0.5; for a person without a note the run
\* writes nothing and the routine set is as it was.
C26_EmptyExtraction ==
    [][(/\ ManualFinishes
        /\ manual.pc \in {"memories", "create"}
        /\ manual.count >= 1
        /\ manual.cands = <<>>
        /\ Exists(manual.pid))
       => IF person[manual.pid].note
          THEN /\ Len(routines'[manual.pid]) = 1
               /\ routines'[manual.pid][1].source = "contextual_note"
               /\ routines'[manual.pid][1].confidence = FALLBACK_CONFIDENCE
          ELSE /\ UNCHANGED storeVars
               /\ routines[manual.pid] = manual.before]_vars

\* a run without candidates over a person whose routines came from memories
\* has put the note's routine in their place
C26_Witness ==
    /\ manual.pc = "done"
    /\ Len(manual.prev) = 2
    /\ manual.prev[1].pid = manual.prev[2].pid
    /\ manual.prev[1].found
    /\ manual.prev[1].count >= 1
    /\ manual.prev[1].ncands = 0
    /\ manual.prev[2].sources = {"memories"}
    /\ Exists(manual.prev[1].pid)
    /\ Len(routines[manual.prev[1].pid]) = 1
    /\ routines[manual.prev[1].pid][1].source = "contextual_note"
    /\ routines[manual.prev[1].pid][1].confidence = FALLBACK_CONFIDENCE

\* the step on which a worker leaves its current person without the mark
\* having been reached or having succeeded
GivesUp(w) ==
    /\ procs[w].pc \in {"count", "person", "memories", "delete", "create", "mark"}
    /\ procs'[w] # procs[w]
    /\ \/ procs[w].pc # "mark" /\ procs'[w].pc # "mark" /\ procs'[w].pid # procs[w].pid
       \/ procs[w].pc = "mark" /\ UNCHANGED person

\* C27: a failure on one person of the batch leaves that person unmarked and
\* the worker goes on with the next person of the batch.
C27_FailureDoesNotAbort ==
    [][\A w \in Workers :
          GivesUp(w) =>
              /\ person'[procs[w].pid].last_routine_analysis =
                     person[procs[w].pid].last_routine_analysis
              /\ procs[w].queue # <<>> =>
                     /\ procs'[w].pc = "count"
                     /\ procs'[w].pid = Head(procs[w].queue)
                     /\ procs'[w].queue = Tail(procs[w].queue)]_vars

\* the second person of a batch is being analysed, the first one has failed:
\* it is still selected and still unmarked
C27_Witness ==
    \E a, b \in PersonIds :
        /\ a # b
        /\ procs["w1"].pid = b
        /\ procs["w1"].pc = "create"
        /\ procs["w1"].queue = <<>>
        /\ NeedsAnalysis(a)
        /\ person[a].last_routine_analysis = Null

\* C28: once the shutdown signal has been observed the worker starts no
\* further person of the batch.
C28_NoCandidateAfterSignal ==
    [][\A w \in Workers :
          procs[w].shutdown_flag =>
              (procs'[w].pid = procs[w].pid \/ procs'[w].pid = NoId)]_vars

\* C29: a call of a wrapped entity-store method runs its query at most 3
\* times, and when every run raised a transient error the call raises.
C29_AtMostThreeAttempts ==
    /\ Len(conn.queries) <= MAX_RETRIES
    /\ (/\ conn.pc \in {"returned", "raised"}
        /\ conn.queries # <<>>
        /\ \A i \in 1..Len(conn.queries) : conn.queries[i] = "transient")
           => conn.pc = "raised"

\* C30: a single transient connectivity error in a store method used by
\* memory save or recognition (update_familiarity, update_last_seen) is
\* absorbed by reconnect-and-retry: the call does not raise.
C30_SingleTransientAbsorbed ==
    ~(/\ conn.op \in DirectOps
      /\ conn.pc = "raised"
      /\ conn.queries = <<"transient">>)

\* C31: a successful memory save for a person whose familiarity score is
\* below 1.0, or not yet set, leaves the score strictly greater than it was.
C31_FamiliarityRises ==
    [][(Idle /\ last'.op = "save_memory" /\ last'.code = 200) =>
          LET old == person[last'.pid].familiarity_score
              new == person'[last'.pid].familiarity_score
          IN (old = <<>> \/ old[1] < FAMILIARITY_CAP) =>
                 /\ new # <<>>
                 /\ old # <<>> => new[1] > old[1]]_vars

\* C32: an enroll that reports an error leaves no record of the new person
\* in the entity store or in the vector index.
C32_FailedEnrollLeavesNothing ==
    [][(Idle /\ last'.op = "enroll" /\ last'.code # 200) =>
          /\ person' = person
          /\ faceIdx' = faceIdx]_vars

\* C33: when a memory of the person was saved after the worker's run had read
\* the person's memories and before its mark, the person is still dirty after
\* the mark. (A save that completed since the start is one that moved
\* last_memory_saved to the present time; it is later than the read when the
\* person holds more memories than the run read.)
C33_LateSaveStaysDirty ==
    [][\A w \in Workers :
          LET pid == procs[w].pid IN
          (/\ procs[w].pc = "mark" /\ procs'[w] # procs[w]
           /\ Exists(pid)
           /\ procs[w].nread >= 1
           /\ memories[pid] > procs[w].nread
           /\ memIdx[pid] = memories[pid]
           /\ person[pid].last_memory_saved = MaxClock) =>
              Dirty(pid)']_vars

\* C34: a memory save that reports an error has either created no Memory or
\* bumped the person's last_memory_saved.
C34_FailedSaveLeavesNoMemory ==
    [][(Idle /\ last'.op = "save_memory" /\ last'.code # 200) =>
          \/ memories' = memories
          \/ /\ person'[last'.pid].last_memory_saved # person[last'.pid].last_memory_saved
             /\ person'[last'.pid].last_memory_saved = clock]_vars

\* C35: a person that needs analysis is eventually taken up by the worker,
\* also while the runs on other persons keep failing.
C35_NoStarvation ==
    \A p \in Crowd \ Failing :
        NeedsAnalysis(p) ~> (procs["w1"].pid = p /\ procs["w1"].pc = "count")

\* C36: a recognize call that answers with a person answers with a person
\* that is in the entity store at that time; a deleted person is never
\* answered, also when its face entry survived the delete.
C36_DeletedNeverRecognized ==
    (last.op = "recognize" /\ last.recognized) => Exists(last.pid)

\* a served batch holds a frame that matches the surviving face entry of a
\* deleted person at or above the threshold
C36_Witness ==
    /\ last.op = "recognize" /\ last.code = 200
    /\ \E i \in 1..Len(last.frames) :
           /\ last.frames[i].kind = "face"
           /\ ~Exists(last.frames[i].nn)
           /\ faceIdx[last.frames[i].nn] = "confirmed"
           /\ last.frames[i].score >= FACE_SIMILARITY_THRESHOLD

\* C37: a confirm that answers with an error other than not-found or
\* invalid-state leaves the person's name, relation, status and confirmed_at
\* as they were before the call.
C37_ConfirmAllOrNothing ==
    [][(Idle /\ last'.op = "confirm" /\ last'.code \notin {200, 400, 404}) =>
          LET old == person[last'.pid]
              new == person'[last'.pid]
          IN /\ new.name = old.name
             /\ new.relation = old.relation
             /\ new.status = old.status
             /\ new.confirmed_at = old.confirmed_at]_vars

\* C38: once a save for a person and a delete of that person have both
\* finished, the delete having succeeded in every call, no memory of the
\* person is in the entity store and no entry tagged with the person is in
\* the memory collection.
C38_NoMemoryAfterDeleteAndSave ==
    LET pid == procs["save"].pid IN
    (/\ procs["save"].pc = "done"
     /\ last.op = "delete" /\ last.code = 200 /\ last.fault = "none"
     /\ last.pid = pid) =>
        /\ memories[pid] = 0
        /\ memIdx[pid] = 0

\* the face-bearing frames of the served batch
FaceFrames == {i \in 1..Len(last.frames) : last.frames[i].kind = "face"}

\* the batch has exactly one face-bearing frame, and its nearest stored point
\* is the confirmed entry of an existing confirmed person, at or above the
\* threshold
RoundTripOf(x) ==
    /\ last.op = "recognize"
    /\ Exists(x) /\ person[x].status = "confirmed" /\ faceIdx[x] = "confirmed"
    /\ \E i \in FaceFrames :
           /\ FaceFrames = {i}
           /\ last.frames[i].nn = x
           /\ last.frames[i].score >= FACE_SIMILARITY_THRESHOLD

====
